---- MODULE Spec2Model ----
(***************************************************************************)
(* The JSON-RPC servers of the repository as state machines.               *)
(*                                                                         *)
(*   "stdlib"   src/src/mcp_server_stdlib.py   MCPServer + run_stdio_server *)
(*   "stdlib1"  src/mcp_server_1_stdlib.py     the earlier MCPServer loop   *)
(*   "simple"   src/mcp_server.py              SimpleMCPServer.run          *)
(*   "django"   src/src/mcp_server_django.py   mcp_endpoint over MCPServer  *)
(*   "django4"  src/4_mcp_django/mcp_server_django.py  self-contained view  *)
(*                                                                         *)
(* A JSON text and the Python value it parses to are kept apart: wire      *)
(* values carry the JSON type names, Python values carry the Python type   *)
(* names, and json_loads / json_dumps convert between the two.             *)
(***************************************************************************)
EXTENDS Integers, Sequences, FiniteSets, TLC

VARIABLES
    program,      \* which of the five programs is running
    pc,           \* "loop" | "done" (end of input) | "interrupted" | "crashed"
    line,         \* the line (or HTTP body) read last; NoLine before the first
    written,      \* what the last line made the program write, in order
    called,       \* the handler the last line was dispatched to ("" if none)
    nread,        \* number of lines / bodies consumed so far
    emitted,      \* roots/list requests written so far
    outstanding,  \* roots/list requests written and not yet answered by the peer
    init_reply,   \* history (kept for the programs in Observed): the id of the
                  \* first initialize request that reached its handler, its
                  \* position in the input and what was written for it
    stdout,       \* history: for every line written so far, in order, the
                  \* position in the input of the line that caused it
    inflight      \* the HTTP requests being served at the same time: for each,
                  \* how far its thread has got and the thread's local values

vars == <<program, pc, line, written, called, nread, emitted, outstanding, init_reply, stdout,
          inflight>>

\* Bounds of the model.
MaxLines == 2
MaxClock == 1
MaxInFlight == 2

-----------------------------------------------------------------------------
(* JSON texts (wire values).                                               *)

Val(t, s, n, d) == [t |-> t, s |-> s, n |-> n, d |-> d]

WStr(s)  == Val("string", s, 0, <<>>)
WNum(n)  == Val("number", "", n, <<>>)
WNull    == Val("null", "", 0, <<>>)
WTrue    == Val("boolean", "", 1, <<>>)
WArr(q)  == Val("array", "", 0, q)
WObj(r)  == Val("object", "", 0, r)

(* Python values.                                                          *)
PStr(s)  == Val("str", s, 0, <<>>)
PInt(n)  == Val("int", "", n, <<>>)
PNone    == Val("NoneType", "", 0, <<>>)
PTrue    == Val("bool", "", 1, <<>>)
PList(q) == Val("list", "", 0, q)
PDict(r) == Val("dict", "", 0, r)
EmptyDict == PDict(<<>>)

\* json.loads / json.dumps on one already tokenised JSON text: the type of
\* every node is converted, containers recursively.
PyType(t) ==
    CASE t = "string"  -> "str"
      [] t = "number"  -> "int"
      [] t = "null"    -> "NoneType"
      [] t = "boolean" -> "bool"
      [] t = "array"   -> "list"
      [] t = "object"  -> "dict"

JsonType(t) ==
    CASE t = "str"      -> "string"
      [] t = "int"      -> "number"
      [] t = "NoneType" -> "null"
      [] t = "bool"     -> "boolean"
      [] t = "list"     -> "array"
      [] t = "dict"     -> "object"

RECURSIVE decode(_)
decode(w) == Val(PyType(w.t), w.s, w.n, [k \in DOMAIN w.d |-> decode(w.d[k])])

RECURSIVE json_dumps(_)
json_dumps(p) == Val(JsonType(p.t), p.s, p.n, [k \in DOMAIN p.d |-> json_dumps(p.d[k])])

\* Outcome of a Python call: a returned value, or a raised exception.
\* `called` names the handler a request was dispatched to; `out` is what the
\* call printed on standard output while it ran.
Ret(v)        == [exc |-> "", msg |-> "", v |-> v, called |-> "", out |-> <<>>]
Raise(e, m)   == [exc |-> e, msg |-> m, v |-> PNone, called |-> "", out |-> <<>>]
Via(h, r)     == [r EXCEPT !.called = h]

\* With(v, F) is F(v): the value of a call is computed once and named.
With(v, F(_)) == F(v)

\* A raw line is text: blank, not JSON, or a JSON text.
json_loads(raw) ==
    IF raw.kind = "json" THEN Ret(decode(raw.v))
    ELSE Raise("JSONDecodeError", "Expecting value: line 1 column 1 (char 0)")

\* str(v) inside an f-string, for the values the inputs contain.
PyStr(v) ==
    CASE v.t = "str"      -> v.s
      [] v.t = "int"      -> ToString(v.n)
      [] v.t = "NoneType" -> "None"
      [] v.t = "bool"     -> IF v.n = 1 THEN "True" ELSE "False"
      [] v.t = "list"     -> "[]"
      [] v.t = "dict"     -> "{}"

\* x.get on something that is not a dict.
NoGet(v) == Raise("AttributeError", "'" \o v.t \o "' object has no attribute 'get'")

\* dict.get(key, default) and `key in dict`.
Get(dict, key, default) == IF key \in DOMAIN dict.d THEN dict.d[key] ELSE default
Has(dict, key)          == key \in DOMAIN dict.d

\* Python truth of the values a response can be.
Truthy(v) ==
    CASE v.t \in {"dict", "list"} -> DOMAIN v.d # {}
      [] v.t = "NoneType"         -> FALSE
      [] v.t = "str"              -> v.s # ""
      [] OTHER                    -> v.n # 0

-----------------------------------------------------------------------------
(* MCPServer, src/src/mcp_server_stdlib.py                                 *)

ROOTS_ID == "42"

\* Variant: the params of the notification are passed on in the request.
ask_roots_passing_params(method, params) ==
    PDict([jsonrpc |-> PStr("2.0"),
           id      |-> PStr(ROOTS_ID),
           method  |-> PStr("roots/list"),
           params  |-> params])

ask_roots(method, params) ==
    PDict([jsonrpc |-> PStr("2.0"),
           id      |-> PStr(ROOTS_ID),
           method  |-> PStr("roots/list"),
           params  |-> EmptyDict])

\* Variant: the payload depends on the params that were sent.
handle_initialize_by_params(params) ==
    PDict([protocolVersion |-> PStr(IF params.t = "dict" THEN "2025-03-26" ELSE "2024-11-05"),
           capabilities    |-> PDict([resources |-> EmptyDict,
                                      tools     |-> EmptyDict,
                                      prompts   |-> EmptyDict,
                                      roots     |-> PDict([listChanged |-> PTrue])]),
           serverInfo      |-> PDict([name    |-> PStr("minimal-mcp"),
                                      version |-> PStr("1.0.0")])])

handle_initialize(params) ==
    PDict([protocolVersion |-> PStr("2025-03-26"),
           capabilities    |-> PDict([resources |-> EmptyDict,
                                      tools     |-> EmptyDict,
                                      prompts   |-> EmptyDict,
                                      roots     |-> PDict([listChanged |-> PTrue])]),
           serverInfo      |-> PDict([name    |-> PStr("minimal-mcp"),
                                      version |-> PStr("1.0.0")])])

\* Variant: a second resource is advertised that resources/read does not serve.
handle_resources_list_advertising_a_file ==
    PDict([resources |-> PList(<<
        PDict([uri         |-> PStr("time://current"),
               name        |-> PStr("Current Time"),
               description |-> PStr("Current date and time"),
               mimeType    |-> PStr("application/json")]),
        PDict([uri         |-> PStr("file:///etc/passwd"),
               name        |-> PStr("Accounts"),
               description |-> PStr("Accounts of the host"),
               mimeType    |-> PStr("text/plain")])>>)])

handle_resources_list ==
    PDict([resources |-> PList(<<
        PDict([uri         |-> PStr("time://current"),
               name        |-> PStr("Current Time"),
               description |-> PStr("Current date and time"),
               mimeType    |-> PStr("application/json")])>>)])

\* json.dumps(time_data, indent=2) for the instant `now` of the clock.
time_text(now) ==
    "{\n  \"current_time\": \"iso(" \o ToString(now) \o ")\",\n  \"timestamp\": "
       \o ToString(now) \o ",\n  \"readable\": \"fmt(" \o ToString(now) \o ")\"\n}"

handle_resources_read(params, now) ==
    IF params.t # "dict" THEN NoGet(params)
    ELSE LET uri == Get(params, "uri", PNone) IN
         IF uri = PStr("time://current")
         THEN Ret(PDict([contents |-> PList(<<
                  PDict([uri      |-> uri,
                         mimeType |-> PStr("application/json"),
                         text     |-> PStr(time_text(now))])>>)]))
         ELSE Ret(PDict([error |-> PStr("Unknown resource URI: " \o PyStr(uri))]))

\* Variant: the tool list carries an id member of its own.
handle_tools_list_carrying_an_id ==
    PDict([id    |-> PStr("tools"),
           tools |-> PList(<<
        PDict([name        |-> PStr("days_between"),
               description |-> PStr("Calculate the number of days between two dates"),
               inputSchema |-> PDict([
                   type       |-> PStr("object"),
                   properties |-> PDict([
                       start_date |-> PDict([type |-> PStr("string"),
                                             description |-> PStr("Start date in YYYY-MM-DD format")]),
                       end_date   |-> PDict([type |-> PStr("string"),
                                             description |-> PStr("End date in YYYY-MM-DD format")])]),
                   required   |-> PList(<<PStr("start_date"), PStr("end_date")>>)])])>>)])

handle_tools_list ==
    PDict([tools |-> PList(<<
        PDict([name        |-> PStr("days_between"),
               description |-> PStr("Calculate the number of days between two dates"),
               inputSchema |-> PDict([
                   type       |-> PStr("object"),
                   properties |-> PDict([
                       start_date |-> PDict([type |-> PStr("string"),
                                             description |-> PStr("Start date in YYYY-MM-DD format")]),
                       end_date   |-> PDict([type |-> PStr("string"),
                                             description |-> PStr("End date in YYYY-MM-DD format")])]),
                   required   |-> PList(<<PStr("start_date"), PStr("end_date")>>)])])>>)])


\* datetime.strptime(data_string, "%Y-%m-%d"): the format's regular expression
\*   (\d\d\d\d)-(1[0-2]|0[1-9]|[1-9])-(3[01]|[12]\d|0[1-9]|[1-9]| [1-9])
\* matched at the start of the string, then the checks on what is left over and
\* on the calendar.
Ch(s, i) == IF 1 <= i /\ i <= Len(s) THEN SubSeq(s, i, i) ELSE ""

Digits  == {"0", "1", "2", "3", "4", "5", "6", "7", "8", "9"}
Nonzero == Digits \ {"0"}

DigitVal(c) ==
    CASE c = "0" -> 0 [] c = "1" -> 1 [] c = "2" -> 2 [] c = "3" -> 3 [] c = "4" -> 4
      [] c = "5" -> 5 [] c = "6" -> 6 [] c = "7" -> 7 [] c = "8" -> 8 [] c = "9" -> 9

RECURSIVE IntOf(_, _, _)
IntOf(s, i, n) == IF n = 0 THEN 0 ELSE 10 * IntOf(s, i, n - 1) + DigitVal(Ch(s, i + n - 1))

\* Length matched by the day group at position i (0: no alternative matches).
DayLen(s, i) ==
    CASE Ch(s, i) = "3" /\ Ch(s, i + 1) \in {"0", "1"}   -> 2
      [] Ch(s, i) \in {"1", "2"} /\ Ch(s, i + 1) \in Digits -> 2
      [] Ch(s, i) = "0" /\ Ch(s, i + 1) \in Nonzero        -> 2
      [] Ch(s, i) \in Nonzero                              -> 1
      [] Ch(s, i) = " " /\ Ch(s, i + 1) \in Nonzero        -> 2
      [] OTHER                                             -> 0

\* Whether "-" and the day group match from position i on.
RestMatches(s, i) == Ch(s, i) = "-" /\ DayLen(s, i + 1) > 0

\* Length matched by the month group at position 6: the first alternative after
\* which the rest of the expression matches (0: none).
MonthLen(s) ==
    CASE Ch(s, 6) = "1" /\ Ch(s, 7) \in {"0", "1", "2"} /\ RestMatches(s, 8) -> 2
      [] Ch(s, 6) = "0" /\ Ch(s, 7) \in Nonzero /\ RestMatches(s, 8)          -> 2
      [] Ch(s, 6) \in Nonzero /\ RestMatches(s, 7)                            -> 1
      [] OTHER                                                                -> 0

IsLeap(y) == y % 4 = 0 /\ (y % 100 # 0 \/ y % 400 = 0)

DaysInMonth(y, m) ==
    CASE m = 2                -> IF IsLeap(y) THEN 29 ELSE 28
      [] m \in {4, 6, 9, 11}  -> 30
      [] OTHER                -> 31

RECURSIVE DaysBeforeMonth(_, _)
DaysBeforeMonth(y, m) == IF m = 1 THEN 0 ELSE DaysBeforeMonth(y, m - 1) + DaysInMonth(y, m - 1)

\* date.toordinal()
toordinal(y, m, d) ==
    LET p == y - 1 IN
    p * 365 + (p \div 4) - (p \div 100) + (p \div 400) + DaysBeforeMonth(y, m) + d

strptime(v) ==
    IF v.t # "str"
    THEN Raise("TypeError", "strptime() argument 1 must be str, not " \o v.t)
    ELSE With(<<v.s, MonthLen(v.s)>>, LAMBDA sm :
         With(<<sm[1], sm[2], DayLen(sm[1], 6 + sm[2] + 1)>>, LAMBDA g :
         LET s    == g[1]
             ml   == g[2]
             dl   == g[3]
             yOk  == \A i \in 1..4 : Ch(s, i) \in Digits
             stop == 6 + ml + dl
             dpos == IF Ch(s, 6 + ml + 1) = " " THEN 6 + ml + 2 ELSE 6 + ml + 1
         IN
         IF ~(yOk /\ Ch(s, 5) = "-" /\ ml > 0)
         THEN Raise("ValueError",
                    "time data '" \o s \o "' does not match format '%Y-%m-%d'")
         ELSE IF stop # Len(s)
         THEN Raise("ValueError",
                    "unconverted data remains: " \o SubSeq(s, stop + 1, Len(s)))
         ELSE With(<<IntOf(s, 1, 4), IntOf(s, 6, ml), IntOf(s, dpos, stop + 1 - dpos)>>,
                   LAMBDA ymd :
                   IF ymd[1] = 0
                   THEN Raise("ValueError", "year 0 is out of range")
                   ELSE IF ymd[3] > DaysInMonth(ymd[1], ymd[2])
                   THEN Raise("ValueError", "day is out of range for month")
                   ELSE Ret(PInt(toordinal(ymd[1], ymd[2], ymd[3]))))))

TextContent(t) ==
    Ret(PDict([content |-> PList(<<PDict([type |-> PStr("text"), text |-> PStr(t)])>>)]))

\* Variant: no except clause for ValueError, the exception leaves the handler.
handle_tools_call_without_except(params) ==
    IF params.t # "dict" THEN NoGet(params)
    ELSE LET tool_name == Get(params, "name", PNone)
             arguments == Get(params, "arguments", EmptyDict)
         IN
         IF tool_name = PStr("days_between")
         THEN IF arguments.t # "dict" THEN NoGet(arguments)
              ELSE LET start_date_str == Get(arguments, "start_date", PStr(""))
                       end_date_str   == Get(arguments, "end_date", PStr(""))
                   IN
                   With(strptime(start_date_str), LAMBDA start_date :
                   IF start_date.exc # "" THEN start_date
                   ELSE With(strptime(end_date_str), LAMBDA end_date :
                        IF end_date.exc # "" THEN end_date
                        ELSE TextContent("There are " \o ToString(end_date.v.n - start_date.v.n)
                                             \o " days between " \o start_date_str.s
                                             \o " and " \o end_date_str.s \o ".")))
         ELSE Ret(PDict([error |-> PStr("Unknown tool: " \o PyStr(tool_name))]))

\* Variant: the difference is taken the other way round, start - end.
handle_tools_call_reversed_difference(params) ==
    IF params.t # "dict" THEN NoGet(params)
    ELSE LET tool_name == Get(params, "name", PNone)
             arguments == Get(params, "arguments", EmptyDict)
         IN
         IF tool_name = PStr("days_between")
         THEN IF arguments.t # "dict" THEN NoGet(arguments)
              ELSE LET start_date_str == Get(arguments, "start_date", PStr(""))
                       end_date_str   == Get(arguments, "end_date", PStr(""))
                   IN
                   With(strptime(start_date_str), LAMBDA start_date :
                   IF start_date.exc = "ValueError"
                   THEN TextContent("Error parsing dates. Please use YYYY-MM-DD format. Error: "
                                        \o start_date.msg)
                   ELSE IF start_date.exc # "" THEN start_date
                   ELSE With(strptime(end_date_str), LAMBDA end_date :
                        IF end_date.exc = "ValueError"
                        THEN TextContent("Error parsing dates. Please use YYYY-MM-DD format. Error: "
                                             \o end_date.msg)
                        ELSE IF end_date.exc # "" THEN end_date
                        ELSE TextContent("There are " \o ToString(start_date.v.n - end_date.v.n)
                                             \o " days between " \o start_date_str.s
                                             \o " and " \o end_date_str.s \o ".")))
         ELSE Ret(PDict([error |-> PStr("Unknown tool: " \o PyStr(tool_name))]))

handle_tools_call(params) ==
    IF params.t # "dict" THEN NoGet(params)
    ELSE LET tool_name == Get(params, "name", PNone)
             arguments == Get(params, "arguments", EmptyDict)
         IN
         IF tool_name = PStr("days_between")
         THEN IF arguments.t # "dict" THEN NoGet(arguments)
              ELSE LET start_date_str == Get(arguments, "start_date", PStr(""))
                       end_date_str   == Get(arguments, "end_date", PStr(""))
                   IN
                   With(strptime(start_date_str), LAMBDA start_date :
                   IF start_date.exc = "ValueError"
                   THEN TextContent("Error parsing dates. Please use YYYY-MM-DD format. Error: "
                                        \o start_date.msg)
                   ELSE IF start_date.exc # "" THEN start_date
                   ELSE With(strptime(end_date_str), LAMBDA end_date :
                        IF end_date.exc = "ValueError"
                        THEN TextContent("Error parsing dates. Please use YYYY-MM-DD format. Error: "
                                             \o end_date.msg)
                        ELSE IF end_date.exc # "" THEN end_date
                        ELSE TextContent("There are " \o ToString(end_date.v.n - start_date.v.n)
                                             \o " days between " \o start_date_str.s
                                             \o " and " \o end_date_str.s \o ".")))
         ELSE Ret(PDict([error |-> PStr("Unknown tool: " \o PyStr(tool_name))]))

handle_prompts_list ==
    PDict([prompts |-> PList(<<
        PDict([name        |-> PStr("quote-of-the-day"),
               description |-> PStr("Generate a quote of the day impersonating a character from a movie"),
               arguments   |-> PList(<<
                   PDict([name        |-> PStr("movie"),
                          description |-> PStr("Name of the movie to quote from"),
                          required    |-> PTrue]),
                   PDict([name        |-> PStr("character"),
                          description |-> PStr("Name of the character to impersonate"),
                          required    |-> PTrue])>>)])>>)])

handle_prompts_get(params) ==
    IF params.t # "dict" THEN NoGet(params)
    ELSE LET prompt_name == Get(params, "name", PNone)
             arguments   == Get(params, "arguments", EmptyDict)
         IN
         IF prompt_name = PStr("quote-of-the-day")
         THEN IF arguments.t # "dict" THEN NoGet(arguments)
              ELSE LET movie     == Get(arguments, "movie", PStr("Unknown Movie"))
                       character == Get(arguments, "character", PStr("Unknown Character"))
                       prompt_text == "Print a short and inspiring quote from " \o PyStr(movie)
                                          \o " by " \o PyStr(character)
                                          \o ". Don't add anything else."
                   IN Ret(PDict([description |-> PStr("Quote of the day prompt"),
                                 messages    |-> PList(<<
                                     PDict([role    |-> PStr("user"),
                                            content |-> PDict([type |-> PStr("text"),
                                                               text |-> PStr(prompt_text)])])>>)]))
         ELSE Ret(PDict([error |-> PStr("Unknown prompt: " \o PyStr(prompt_name))]))

\* The chain of method tests of MCPServer.handle_request: the raw result, and
\* the handler it went to.
dispatch_method(method, params, now) ==
    IF method = PStr("initialize")
    THEN Via("handle_initialize", Ret(handle_initialize(params)))
    ELSE IF method = PStr("resources/list")
    THEN Via("handle_resources_list", Ret(handle_resources_list))
    ELSE IF method = PStr("resources/read")
    THEN Via("handle_resources_read", handle_resources_read(params, now))
    ELSE IF method = PStr("tools/list")
    THEN Via("handle_tools_list", Ret(handle_tools_list))
    ELSE IF method = PStr("tools/call")
    THEN Via("handle_tools_call", handle_tools_call(params))
    ELSE IF method = PStr("prompts/list")
    THEN Via("handle_prompts_list", Ret(handle_prompts_list))
    ELSE IF method = PStr("prompts/get")
    THEN Via("handle_prompts_get", handle_prompts_get(params))
    ELSE Ret(PDict([error |-> PStr("Unknown method: " \o PyStr(method))]))

\* Variant: the test for a missing id is left out, so a notification reaches
\* the method chain.
handle_request_without_notification_test(request, now) ==
    IF request.t # "dict" THEN NoGet(request)
    ELSE LET method == Get(request, "method", PNone)
             params == Get(request, "params", EmptyDict)
         IN
         IF Get(request, "id", PNone) = PStr(ROOTS_ID)
         THEN Ret(EmptyDict)
         ELSE dispatch_method(method, params, now)

\* Variant: the test for the correlation id is left out.
handle_request_without_absorption(request, now) ==
    IF request.t # "dict" THEN NoGet(request)
    ELSE LET method == Get(request, "method", PNone)
             params == Get(request, "params", EmptyDict)
         IN
         IF Get(request, "id", PNone) = PNone
         THEN Via("ask_roots", Ret(ask_roots(method, params)))
         ELSE dispatch_method(method, params, now)

\* Variant: the correlation id is compared as text, str(request.get("id")) == "42".
handle_request_absorbing_by_text(request, now) ==
    IF request.t # "dict" THEN NoGet(request)
    ELSE LET method == Get(request, "method", PNone)
             params == Get(request, "params", EmptyDict)
         IN
         IF Get(request, "id", PNone) = PNone
         THEN Via("ask_roots", Ret(ask_roots(method, params)))
         ELSE IF PyStr(Get(request, "id", PNone)) = ROOTS_ID
         THEN Ret(EmptyDict)
         ELSE dispatch_method(method, params, now)

\* Variant: a message is a notification when it has no id member,
\* "id" not in request.
handle_request_testing_membership(request, now) ==
    IF request.t # "dict" THEN NoGet(request)
    ELSE LET method == Get(request, "method", PNone)
             params == Get(request, "params", EmptyDict)
         IN
         IF ~Has(request, "id")
         THEN Via("ask_roots", Ret(ask_roots(method, params)))
         ELSE IF Get(request, "id", PNone) = PStr(ROOTS_ID)
         THEN Ret(EmptyDict)
         ELSE dispatch_method(method, params, now)

\* MCPServer.handle_request
handle_request(request, now) ==
    IF request.t # "dict" THEN NoGet(request)
    ELSE LET method == Get(request, "method", PNone)
             params == Get(request, "params", EmptyDict)
         IN
         IF Get(request, "id", PNone) = PNone
         THEN Via("ask_roots", Ret(ask_roots(method, params)))
         ELSE IF Get(request, "id", PNone) = PStr(ROOTS_ID)
         THEN Ret(EmptyDict)
         ELSE dispatch_method(method, params, now)

ErrorEnvelope(code, message, id) ==
    PDict([jsonrpc |-> PStr("2.0"),
           error   |-> PDict([code |-> PInt(code), message |-> PStr(message)]),
           id      |-> id])

\* Variant: the id is echoed as its text, str(request["id"]).
handle_request_with_response_id_as_text(request, now) ==
    With(handle_request(request, now), LAMBDA r :
    IF r.exc = ""
    THEN LET result == r.v IN
         IF ~Truthy(result) THEN Via(r.called, Ret(EmptyDict))
         ELSE IF Has(result, "id") THEN Via(r.called, Ret(result))
         ELSE Via(r.called,
                  Ret(PDict(IF Has(request, "id")
                            THEN [jsonrpc |-> PStr("2.0"), result |-> result,
                                  id |-> PStr(PyStr(request.d["id"]))]
                            ELSE [jsonrpc |-> PStr("2.0"), result |-> result])))
    ELSE IF request.t # "dict" THEN Via(r.called, NoGet(request))
         ELSE Via(r.called,
                  Ret(ErrorEnvelope(-32603, "Internal error: " \o r.msg,
                                    PStr(PyStr(Get(request, "id", PNone)))))))

\* Variant: an exception in dispatch is swallowed like an empty result.
handle_request_with_response_swallowing(request, now) ==
    With(handle_request(request, now), LAMBDA r :
    IF r.exc = ""
    THEN LET result == r.v IN
         IF ~Truthy(result) THEN Via(r.called, Ret(EmptyDict))
         ELSE IF Has(result, "id") THEN Via(r.called, Ret(result))
         ELSE Via(r.called,
                  Ret(PDict(IF Has(request, "id")
                            THEN [jsonrpc |-> PStr("2.0"), result |-> result,
                                  id |-> request.d["id"]]
                            ELSE [jsonrpc |-> PStr("2.0"), result |-> result])))
    ELSE IF request.t # "dict" THEN Via(r.called, NoGet(request))
         ELSE Via(r.called, Ret(EmptyDict)))

\* Variant: the except clause answers with id None instead of the request's id.
handle_request_with_response_error_without_id(request, now) ==
    With(handle_request(request, now), LAMBDA r :
    IF r.exc = ""
    THEN LET result == r.v IN
         IF ~Truthy(result) THEN Via(r.called, Ret(EmptyDict))
         ELSE IF Has(result, "id") THEN Via(r.called, Ret(result))
         ELSE Via(r.called,
                  Ret(PDict(IF Has(request, "id")
                            THEN [jsonrpc |-> PStr("2.0"), result |-> result,
                                  id |-> request.d["id"]]
                            ELSE [jsonrpc |-> PStr("2.0"), result |-> result])))
    ELSE IF request.t # "dict" THEN Via(r.called, NoGet(request))
         ELSE Via(r.called,
                  Ret(ErrorEnvelope(-32603, "Internal error: " \o r.msg, PNone))))

\* MCPServer.handle_request_with_response: the full JSON-RPC response.
handle_request_with_response(request, now) ==
    With(handle_request(request, now), LAMBDA r :
    IF r.exc = ""
    THEN LET result == r.v IN
         IF ~Truthy(result) THEN Via(r.called, Ret(EmptyDict))
         ELSE IF Has(result, "id") THEN Via(r.called, Ret(result))
         ELSE LET response == [jsonrpc |-> PStr("2.0"), result |-> result] IN
              Via(r.called,
                  Ret(PDict(IF Has(request, "id")
                            THEN [k \in DOMAIN response \cup {"id"} |->
                                     IF k = "id" THEN request.d["id"] ELSE response[k]]
                            ELSE response)))
    ELSE \* except Exception as e: request.get("id") is evaluated in the handler
         IF request.t # "dict" THEN Via(r.called, NoGet(request))
         ELSE Via(r.called,
                  Ret(ErrorEnvelope(-32603, "Internal error: " \o r.msg,
                                    Get(request, "id", PNone)))))

\* Variant: the last except clause answers with code -32600 (Invalid Request).
handle_raw_request_invalid_request(raw_data, now) ==
    LET parsed == json_loads(raw_data) IN
    IF parsed.exc = "JSONDecodeError"
    THEN Ret(ErrorEnvelope(-32700, "Parse error", PNone))
    ELSE With(handle_request_with_response(parsed.v, now), LAMBDA r :
         IF r.exc = "" THEN r
         ELSE Via(r.called, Ret(ErrorEnvelope(-32600, "Invalid Request", PNone))))

\* Variant: no clause of its own for json.JSONDecodeError.
handle_raw_request_one_except_clause(raw_data, now) ==
    LET parsed == json_loads(raw_data) IN
    IF parsed.exc # ""
    THEN Ret(ErrorEnvelope(-32603, "Internal error: " \o parsed.msg, PNone))
    ELSE With(handle_request_with_response(parsed.v, now), LAMBDA r :
         IF r.exc = "" THEN r
         ELSE Via(r.called, Ret(ErrorEnvelope(-32603, "Internal error: " \o r.msg, PNone))))

\* MCPServer.handle_raw_request: parsing and every error path.
handle_raw_request(raw_data, now) ==
    LET parsed == json_loads(raw_data) IN
    IF parsed.exc = "JSONDecodeError"
    THEN Ret(ErrorEnvelope(-32700, "Parse error", PNone))
    ELSE With(handle_request_with_response(parsed.v, now), LAMBDA r :
         IF r.exc = "" THEN r
         ELSE Via(r.called, Ret(ErrorEnvelope(-32603, "Internal error: " \o r.msg, PNone))))

-----------------------------------------------------------------------------
(* The earlier MCPServer, src/mcp_server_1_stdlib.py.  Its capability      *)
(* handlers and its chain of method tests (lines 46-61) are the same text   *)
(* as in src/src/mcp_server_stdlib.py; it differs in the notification      *)
(* path, the correlation id and the loop.                                  *)

ROOTS_ID_1 == "roots_request_1"

\* handle_notification prints the roots/list request itself.
handle_notification(method, params) ==
    <<json_dumps(PDict([jsonrpc |-> PStr("2.0"),
                        id      |-> PStr(ROOTS_ID_1),
                        method  |-> PStr("roots/list"),
                        params  |-> EmptyDict]))>>

\* Variant: the roots/list request is printed and also returned to the loop.
handle_request_1_returning_the_request(request, now) ==
    IF request.t # "dict" THEN NoGet(request)
    ELSE LET method == Get(request, "method", PNone)
             params == Get(request, "params", EmptyDict)
         IN
         IF Get(request, "id", PNone) = PNone
         THEN [Via("handle_notification", Ret(decode(handle_notification(method, params)[1])))
                  EXCEPT !.out = handle_notification(method, params)]
         ELSE IF Get(request, "id", PNone) = PStr(ROOTS_ID_1)
         THEN Ret(EmptyDict)
         ELSE dispatch_method(method, params, now)

handle_request_1(request, now) ==
    IF request.t # "dict" THEN NoGet(request)
    ELSE LET method == Get(request, "method", PNone)
             params == Get(request, "params", EmptyDict)
         IN
         IF Get(request, "id", PNone) = PNone
         THEN [Via("handle_notification", Ret(EmptyDict))
                  EXCEPT !.out = handle_notification(method, params)]
         ELSE IF Get(request, "id", PNone) = PStr(ROOTS_ID_1)
         THEN Ret(EmptyDict)
         ELSE dispatch_method(method, params, now)

-----------------------------------------------------------------------------
(* SimpleMCPServer, src/mcp_server.py                                      *)

error_response(request_id, code, message) ==
    PDict([jsonrpc |-> PStr("2.0"),
           id      |-> request_id,
           error   |-> PDict([code |-> PInt(code), message |-> PStr(message)])])

initialize(params, request_id) ==
    PDict([jsonrpc |-> PStr("2.0"),
           id      |-> request_id,
           result  |-> PDict([protocolVersion |-> PStr("2024-11-05"),
                              capabilities    |-> PDict([tools |-> EmptyDict]),
                              serverInfo      |-> PDict([name    |-> PStr("simple-mcp-server"),
                                                         version |-> PStr("1.0.0")])])])

list_tools(params, request_id) ==
    PDict([jsonrpc |-> PStr("2.0"),
           id      |-> request_id,
           result  |-> PDict([tools |-> PList(<<
               PDict([name        |-> PStr("echo"),
                      description |-> PStr("Echo back the input text"),
                      inputSchema |-> PDict([
                          type       |-> PStr("object"),
                          properties |-> PDict([
                              text |-> PDict([type |-> PStr("string"),
                                              description |-> PStr("Text to echo back")])]),
                          required   |-> PList(<<PStr("text")>>)])]),
               PDict([name        |-> PStr("calculator"),
                      description |-> PStr("Perform basic arithmetic operations"),
                      inputSchema |-> PDict([
                          type       |-> PStr("object"),
                          properties |-> PDict([
                              operation |-> PDict([
                                  type |-> PStr("string"),
                                  enum |-> PList(<<PStr("add"), PStr("subtract"),
                                                   PStr("multiply"), PStr("divide")>>),
                                  description |-> PStr("The arithmetic operation to perform")]),
                              a |-> PDict([type |-> PStr("number"),
                                           description |-> PStr("First number")]),
                              b |-> PDict([type |-> PStr("number"),
                                           description |-> PStr("Second number")])]),
                          required   |-> PList(<<PStr("operation"), PStr("a"), PStr("b")>>)])])>>)])])

tool_echo(arguments) ==
    IF arguments.t # "dict" THEN NoGet(arguments)
    ELSE Ret(PStr("Echo: " \o PyStr(Get(arguments, "text", PStr("")))))

\* a / b on ints is a float: its repr, for non-negative a, positive b and a
\* quotient with at most one decimal digit (the operands the inputs contain).
FloatStr(a, b) ==
    IF a % b = 0 THEN ToString(a \div b) \o ".0"
    ELSE ToString(a \div b) \o "." \o ToString(((a % b) * 10) \div b)

\* Operands are ints or None (a missing argument), as in the inputs.
tool_calculator(arguments) ==
    IF arguments.t # "dict" THEN NoGet(arguments)
    ELSE LET operation == Get(arguments, "operation", PNone)
             a == Get(arguments, "a", PNone)
             b == Get(arguments, "b", PNone)
             Text(r) == Ret(PStr("Result: " \o PyStr(a) \o " " \o PyStr(operation)
                                     \o " " \o PyStr(b) \o " = " \o r))
             Unsupported(op) ==
                 Raise("TypeError", "unsupported operand type(s) for " \o op \o ": '"
                                        \o a.t \o "' and '" \o b.t \o "'")
             ints == a.t = "int" /\ b.t = "int"
         IN
         IF operation = PStr("add")
         THEN IF ints THEN Text(ToString(a.n + b.n)) ELSE Unsupported("+")
         ELSE IF operation = PStr("subtract")
         THEN IF ints THEN Text(ToString(a.n - b.n)) ELSE Unsupported("-")
         ELSE IF operation = PStr("multiply")
         THEN IF ints THEN Text(ToString(a.n * b.n)) ELSE Unsupported("*")
         ELSE IF operation = PStr("divide")
         THEN IF b = PInt(0) THEN Raise("ValueError", "Division by zero")
              ELSE IF ints THEN Text(FloatStr(a.n, b.n)) ELSE Unsupported("/")
         ELSE Raise("ValueError", "Unknown operation: " \o PyStr(operation))

call_tool(params, request_id) ==
    IF params.t # "dict" THEN NoGet(params)
    ELSE LET tool_name == Get(params, "name", PNone)
             arguments == Get(params, "arguments", EmptyDict)
         IN
         IF tool_name \notin {PStr("echo"), PStr("calculator")}
         THEN Ret(error_response(request_id, -32602, "Unknown tool: " \o PyStr(tool_name)))
         ELSE With(IF tool_name = PStr("echo") THEN tool_echo(arguments)
                   ELSE tool_calculator(arguments), LAMBDA result :
         IF result.exc # ""
         THEN Ret(error_response(request_id, -32603, "Tool execution error: " \o result.msg))
         ELSE Ret(PDict([jsonrpc |-> PStr("2.0"),
                         id      |-> request_id,
                         result  |-> PDict([content |-> PList(<<
                             PDict([type |-> PStr("text"), text |-> result.v])>>)])])))

Simple_handle_request(request) ==
    IF request.t # "dict" THEN NoGet(request)   \* raised again by the except clause
    ELSE LET method     == Get(request, "method", PNone)
             params     == Get(request, "params", EmptyDict)
             request_id == Get(request, "id", PNone)
         IN
         With(IF method = PStr("initialize")
              THEN Via("initialize", Ret(initialize(params, request_id)))
              ELSE IF method = PStr("tools/list")
              THEN Via("list_tools", Ret(list_tools(params, request_id)))
              ELSE IF method = PStr("tools/call")
              THEN Via("call_tool", call_tool(params, request_id))
              ELSE Ret(error_response(request_id, -32601,
                                      "Method not found: " \o PyStr(method))),
              LAMBDA r :
              IF r.exc = "" THEN r
              ELSE Via(r.called, Ret(error_response(Get(request, "id", PNone), -32603, r.msg))))

-----------------------------------------------------------------------------
(* The self-contained Django view, src/4_mcp_django/mcp_server_django.py   *)

mcp_endpoint_4(body) ==
    LET parsed == json_loads(body)
        data   == parsed.v
        NoId(code, message) ==
            PDict([jsonrpc |-> PStr("2.0"),
                   error   |-> PDict([code |-> PInt(code), message |-> PStr(message)])])
    IN
    IF parsed.exc = "JSONDecodeError" THEN Ret(NoId(-32700, "Parse error"))
    ELSE IF data.t # "dict" THEN Ret(NoId(-32603, "Internal error: " \o NoGet(data).msg))
    ELSE LET method == Get(data, "method", PNone)
             id     == Get(data, "id", PNone)
             params == Get(data, "params", EmptyDict)
             Default == Ret(PDict([jsonrpc |-> PStr("2.0"),
                                   id      |-> id,
                                   error   |-> PDict([code    |-> PInt(-32601),
                                                      message |-> PStr("Method not found")])]))
         IN
         IF method = PStr("initialize")
         THEN Via("initialize", Ret(PDict([
                  jsonrpc |-> PStr("2.0"),
                  id      |-> id,
                  result  |-> PDict([protocolVersion |-> PStr("2024-11-05"),
                                     capabilities    |-> PDict([tools |-> EmptyDict]),
                                     serverInfo      |-> PDict([name    |-> PStr("minimal-django-mcp"),
                                                                version |-> PStr("1.0.0")])])])))
         ELSE IF method = PStr("tools/list")
         THEN Via("tools/list", Ret(PDict([
                  jsonrpc |-> PStr("2.0"),
                  id      |-> id,
                  result  |-> PDict([tools |-> PList(<<
                      PDict([name        |-> PStr("hello"),
                             description |-> PStr("Says hello"),
                             inputSchema |-> PDict([
                                 type       |-> PStr("object"),
                                 properties |-> PDict([
                                     name |-> PDict([type |-> PStr("string"),
                                                     description |-> PStr("Name to greet")])])])])>>)])])))
         ELSE IF method = PStr("tools/call")
         THEN IF params.t # "dict"
              THEN Ret(NoId(-32603, "Internal error: " \o NoGet(params).msg))
              ELSE IF Get(params, "name", PNone) = PStr("hello")
              THEN LET arguments == Get(params, "arguments", EmptyDict) IN
                   IF arguments.t # "dict"
                   THEN Ret(NoId(-32603, "Internal error: " \o NoGet(arguments).msg))
                   ELSE Via("hello", Ret(PDict([
                            jsonrpc |-> PStr("2.0"),
                            id      |-> id,
                            result  |-> PDict([content |-> PList(<<
                                PDict([type |-> PStr("text"),
                                       text |-> PStr("Hello, "
                                           \o PyStr(Get(arguments, "name", PStr("World")))
                                           \o "!")])>>)])])))
              ELSE Default
         ELSE Default

-----------------------------------------------------------------------------
(* The inputs: lines of standard input, or HTTP request bodies.            *)

Absent == Val("absent", "", 0, <<>>)

\* A JSON object with the members of r that are present.
MkObj(r) == WObj([k \in {j \in DOMAIN r : r[j] # Absent} |-> r[k]])

Request(id, method, params) ==
    MkObj([jsonrpc |-> WStr("2.0"), id |-> id, method |-> method, params |-> params])

Params(name, uri, arguments) == MkObj([name |-> name, uri |-> uri, arguments |-> arguments])

KnownMethods ==
    {"initialize", "resources/list", "resources/read", "tools/list", "tools/call",
     "prompts/list", "prompts/get"}

MethodChoices ==
    {WStr(m) : m \in KnownMethods \cup {"notifications/initialized", "bogus"}} \cup {Absent}

IdChoices ==
    {Absent, WNull, WStr("42"), WNum(42), WStr("7"), WNum(7), WNum(0), WStr("roots_request_1")}

Dates(a, b) == MkObj([start_date |-> a, end_date |-> b])

DaysBetweenArguments ==
    {Absent, WNull, WObj(<<>>),
     Dates(WStr("2024-01-01"), WStr("2024-01-11")),
     Dates(WStr("2024-03-01"), WStr("2024-02-28")),
     Dates(WStr("2023-12-31"), WStr("2024-03-01")),
     Dates(WStr("1900-02-28"), WStr("1900-03-01")),
     Dates(WStr("bad"), WStr("2024-01-11")),
     Dates(WStr("2024-01-01"), WStr("2024-02-30")),
     Dates(WStr("2024-1-5"), WStr("2024-01-011")),
     Dates(WNum(5), WStr("2024-01-11")),
     Dates(WNum(5), WStr("bad")),
     Dates(WStr("bad"), WNum(5)),
     Dates(WStr("2024-01-01"), Absent)}

Calc(op, a, b) == MkObj([operation |-> op, a |-> a, b |-> b])

OtherToolCalls ==
    {Params(WStr("nope"), Absent, Absent),
     Params(WStr("nope"), Absent, WNull),
     Params(WNum(5), Absent, WObj(<<>>)),
     Params(WStr("echo"), Absent, MkObj([text |-> WStr("hi")])),
     Params(WStr("echo"), Absent, WNull),
     Params(WStr("calculator"), Absent, Calc(WStr("add"), WNum(2), WNum(3))),
     Params(WStr("calculator"), Absent, Calc(WStr("divide"), WNum(1), WNum(2))),
     Params(WStr("calculator"), Absent, Calc(WStr("divide"), WNum(1), WNum(0))),
     Params(WStr("calculator"), Absent, Calc(WStr("add"), WNum(1), Absent)),
     Params(WStr("calculator"), Absent, Calc(WStr("power"), WNum(1), WNum(2))),
     Params(WStr("hello"), Absent, MkObj([name |-> WStr("Bob")])),
     Params(WStr("hello"), Absent, Absent)}

ToolCallParams ==
    {Params(WStr("days_between"), Absent, a) : a \in DaysBetweenArguments} \cup OtherToolCalls

ReadParams ==
    {Params(Absent, WStr("time://current"), Absent),
     Params(Absent, WStr("file:///etc/passwd"), Absent),
     Params(Absent, WNum(5), Absent)}

Quote(m, c) == MkObj([movie |-> m, character |-> c])

PromptParams ==
    {Params(WStr("quote-of-the-day"), Absent, Quote(WStr("Alien"), WStr("Ripley"))),
     Params(WStr("quote-of-the-day"), Absent, Quote(WStr("Alien"), Absent)),
     Params(WStr("quote-of-the-day"), Absent, WNull),
     Params(WStr("nope"), Absent, Absent)}

Objects ==
         {Request(i, m, Absent) : i \in IdChoices, m \in MethodChoices}
    \cup {Request(i, m, p) : i \in {Absent, WNum(7), WStr("42")}, m \in MethodChoices,
                             p \in {WNull, WArr(<<>>), WObj(<<>>)}}
    \cup {Request(i, WStr("tools/call"), p) : i \in {WNum(7), WStr("7")}, p \in ToolCallParams}
    \cup {Request(i, WStr("resources/read"), p) : i \in {WNum(7), WStr("7")}, p \in ReadParams}
    \cup {Request(i, WStr("prompts/get"), p) : i \in {WNum(7), WStr("7")}, p \in PromptParams}

NonObjects == {WArr(<<>>), WNum(3), WStr("initialize"), WTrue, WNull}

Text(kind) == [kind |-> kind, v |-> WNull]
Json(v)    == [kind |-> "json", v |-> v]

\* "blank": only whitespace before the newline; "invalid": not a JSON text.
Lines == {Text("blank"), Text("invalid")} \cup {Json(v) : v \in NonObjects \cup Objects}

NoLine == Text("none")

\* str.strip(): a blank line becomes the empty string.
strip(raw) == IF raw.kind = "blank" THEN Text("empty") ELSE raw

\* datetime.now() is read only by resources/read.
Clock(raw) ==
    IF raw.kind = "json" /\ raw.v.t = "object" /\ "method" \in DOMAIN raw.v.d
       /\ raw.v.d["method"] = WStr("resources/read")
    THEN 0..MaxClock ELSE {0}

-----------------------------------------------------------------------------
(* The programs.                                                           *)

Stdio    == {"stdlib", "stdlib1", "simple"}
Http     == {"django", "django4"}
Programs == Stdio \cup Http

RootsId == [p \in Programs |-> IF p = "stdlib1" THEN ROOTS_ID_1 ELSE ROOTS_ID]

IsRootsRequest(w) ==
    w.t = "object" /\ "method" \in DOMAIN w.d /\ w.d["method"] = WStr("roots/list")

\* The peer's answer to a roots/list request: a message carrying its id.
Answers(p, raw) ==
    raw.kind = "json" /\ raw.v.t = "object" /\ "id" \in DOMAIN raw.v.d
       /\ raw.v.d["id"] = WStr(RootsId[p])

Emitted(out) == Cardinality({i \in DOMAIN out : IsRootsRequest(out[i])})

IsInitialize(raw) ==
    raw.kind = "json" /\ raw.v.t = "object" /\ "method" \in DOMAIN raw.v.d
       /\ raw.v.d["method"] = WStr("initialize")

IdOf(raw) == IF "id" \in DOMAIN raw.v.d THEN raw.v.d["id"] ELSE Absent

NoReply == [id |-> Absent, at |-> 0, out |-> <<>>]

\* The programs whose answers to initialize are kept in init_reply.
Observed == {"stdlib", "simple"}

\* One line (or body) consumed: what was written for it and where the loop is.
Step(raw, out, handler, next) ==
    /\ line' = raw
    /\ written' = out
    /\ called' = handler
    /\ pc' = next
    /\ nread' = nread + 1
    /\ emitted' = emitted + Emitted(out)
    /\ outstanding' = (IF Answers(program, raw) /\ outstanding > 0
                       THEN outstanding - 1 ELSE outstanding) + Emitted(out)
    /\ init_reply' = IF init_reply = NoReply /\ IsInitialize(raw)
                        /\ program \in Observed
                        /\ handler \in {"handle_initialize", "initialize"}
                     THEN [id |-> IdOf(raw), at |-> nread + 1, out |-> out]
                     ELSE init_reply
    /\ stdout' = stdout \o [i \in 1..Len(out) |-> nread + 1]
    /\ UNCHANGED program

Init ==
    /\ program \in Programs
    /\ pc = "loop"
    /\ line = NoLine
    /\ written = <<>>
    /\ called = ""
    /\ nread = 0
    /\ emitted = 0
    /\ outstanding = 0
    /\ init_reply = NoReply
    /\ stdout = <<>>
    /\ inflight = <<>>

\* Variant: the server remembers its outstanding roots/list request and sends
\* no second one before the first is answered.
run_stdio_server_remembering_its_request ==
    /\ UNCHANGED inflight
    /\ program = "stdlib" /\ pc = "loop" /\ nread < MaxLines
    /\ \E raw \in Lines : \E now \in Clock(raw) :
         With(handle_raw_request(strip(raw), now), LAMBDA response :
         Step(raw,
              IF Truthy(response.v)
                 /\ ~(outstanding > 0 /\ IsRootsRequest(json_dumps(response.v)))
              THEN <<json_dumps(response.v)>> ELSE <<>>,
              response.called, "loop"))

\* run_stdio_server of src/src/mcp_server_stdlib.py: one turn of the loop.
run_stdio_server ==
    /\ UNCHANGED inflight
    /\ program = "stdlib" /\ pc = "loop" /\ nread < MaxLines
    /\ \E raw \in Lines : \E now \in Clock(raw) :
         With(handle_raw_request(strip(raw), now), LAMBDA response :
         Step(raw,
              IF Truthy(response.v) THEN <<json_dumps(response.v)>> ELSE <<>>,
              response.called, "loop"))

\* run_stdio_server of src/mcp_server_1_stdlib.py: one turn of the loop.
run_stdio_server_1 ==
    /\ UNCHANGED inflight
    /\ program = "stdlib1" /\ pc = "loop" /\ nread < MaxLines
    /\ \E raw \in Lines : \E now \in Clock(raw) :
         With(json_loads(strip(raw)), LAMBDA parsed :
         With(handle_request_1(parsed.v, now), LAMBDA r :
         LET response == [jsonrpc |-> PStr("2.0"), result |-> r.v] IN
         IF parsed.exc = "JSONDecodeError"
         THEN Step(raw, <<json_dumps(ErrorEnvelope(-32700, "Parse error", PNone))>>, "", "loop")
         ELSE IF r.exc # ""
         THEN Step(raw, r.out, r.called, "crashed")
         ELSE IF ~Truthy(r.v)
         THEN Step(raw, r.out, r.called, "loop")
         ELSE Step(raw,
                   r.out \o <<json_dumps(PDict(
                       IF Has(parsed.v, "id")
                       THEN [k \in DOMAIN response \cup {"id"} |->
                                IF k = "id" THEN parsed.v.d["id"] ELSE response[k]]
                       ELSE response))>>,
                   r.called, "loop")))

\* SimpleMCPServer.run: one turn of the loop.
Simple_run ==
    /\ UNCHANGED inflight
    /\ program = "simple" /\ pc = "loop" /\ nread < MaxLines
    /\ \E raw \in Lines :
         With(json_loads(strip(raw)), LAMBDA parsed :
         With(Simple_handle_request(parsed.v), LAMBDA response :
         IF strip(raw).kind = "empty"
         THEN Step(raw, <<>>, "", "loop")
         ELSE IF parsed.exc = "JSONDecodeError"
         THEN Step(raw, <<json_dumps(error_response(PNone, -32700, "Parse error"))>>, "", "loop")
         ELSE IF response.exc # ""
         THEN Step(raw, <<>>, response.called, "crashed")
         ELSE Step(raw,
                   IF Truthy(response.v) THEN <<json_dumps(response.v)>> ELSE <<>>,
                   response.called, "loop")))

\* Variant: at the end of input the loop reads again instead of leaving.
EndOfInput_reading_on ==
    /\ program \in Stdio /\ pc = "loop"
    /\ pc' = "loop"
    /\ UNCHANGED <<program, line, written, called, nread, emitted, outstanding, init_reply, stdout,
                   inflight>>

\* readline() returns "" / the iterator is exhausted: the loop ends.
EndOfInput ==
    /\ program \in Stdio /\ pc = "loop"
    /\ pc' = "done"
    /\ UNCHANGED <<program, line, written, called, nread, emitted, outstanding, init_reply, stdout,
                   inflight>>

\* KeyboardInterrupt is caught around the loop and logged.
KeyboardInterrupt ==
    /\ program \in Stdio /\ pc = "loop"
    /\ pc' = "interrupted"
    /\ UNCHANGED <<program, line, written, called, nread, emitted, outstanding, init_reply, stdout,
                   inflight>>

\* mcp_endpoint of src/src/mcp_server_django.py: one POST.
mcp_endpoint ==
    /\ UNCHANGED inflight
    /\ program = "django" /\ pc = "loop" /\ nread < MaxLines
    /\ \E raw \in Lines : \E now \in Clock(raw) :
         With(handle_raw_request(raw, now), LAMBDA response :
         Step(raw,
              <<json_dumps(IF Truthy(response.v) THEN response.v ELSE EmptyDict)>>,
              response.called, "loop"))

\* mcp_endpoint of src/4_mcp_django/mcp_server_django.py: one POST.
Post_4 ==
    /\ UNCHANGED inflight
    /\ program = "django4" /\ pc = "loop" /\ nread < MaxLines
    /\ \E raw \in Lines :
         With(mcp_endpoint_4(raw), LAMBDA response :
         Step(raw, <<json_dumps(response.v)>>, response.called, "loop"))

Next ==
    \/ run_stdio_server
    \/ run_stdio_server_1
    \/ Simple_run
    \/ EndOfInput
    \/ KeyboardInterrupt
    \/ mcp_endpoint
    \/ Post_4

Spec == Init /\ [][Next]_vars

\* The input is finite: a running loop meets its end, readline() returns ""
\* (the iterator over sys.stdin is exhausted).  How many lines come before the
\* end is open, and an interrupt is up to the user and never owed.
LiveSpec == Spec /\ WF_vars(EndOfInput)

-----------------------------------------------------------------------------
(* mcp_endpoint of src/src/mcp_server_django.py served by several threads   *)
(* at once on the one module-level MCPServer instance.  A thread can be     *)
(* preempted between any two of its calls, so each call is a step of its    *)
(* own; everything a thread holds is local to it (MCPServer has no field).  *)

Threads == 1..MaxInFlight

Idle == [stage |-> "idle", body |-> NoLine, now |-> 0, request |-> PNone,
         response |-> PNone, handler |-> ""]

HttpBodies ==
    {Text("invalid"),
     Json(WArr(<<>>)),
     Json(Request(WNum(7), WStr("initialize"), Absent)),
     Json(Request(Absent, WStr("notifications/initialized"), Absent)),
     Json(Request(WStr("42"), WStr("tools/list"), Absent)),
     Json(Request(WNum(7), WStr("tools/call"), WNull)),
     Json(Request(WStr("7"), WStr("tools/call"),
                  Params(WStr("days_between"), Absent,
                         Dates(WStr("2024-01-01"), WStr("2024-01-11"))))),
     Json(Request(WNum(7), WStr("resources/read"),
                  Params(Absent, WStr("time://current"), Absent)))}

\* raw_data = request.body.decode('utf-8')
Receive(t) ==
    /\ program = "django" /\ pc = "loop" /\ inflight[t].stage = "idle"
    /\ \E raw \in HttpBodies : \E now \in Clock(raw) :
         inflight' = [inflight EXCEPT ![t] = [Idle EXCEPT !.stage = "received",
                                                          !.body = raw, !.now = now]]
    /\ UNCHANGED <<program, pc, line, written, called, nread, emitted, outstanding,
                   init_reply, stdout>>

\* handle_raw_request: request = json.loads(raw_data), and its except clause.
Parse(t) ==
    /\ program = "django" /\ inflight[t].stage = "received"
    /\ LET parsed == json_loads(inflight[t].body) IN
       inflight' = [inflight EXCEPT ![t] =
           IF parsed.exc = "JSONDecodeError"
           THEN [@ EXCEPT !.stage = "handled",
                          !.response = ErrorEnvelope(-32700, "Parse error", PNone)]
           ELSE [@ EXCEPT !.stage = "parsed", !.request = parsed.v]]
    /\ UNCHANGED <<program, pc, line, written, called, nread, emitted, outstanding,
                   init_reply, stdout>>

\* Variant: the parsed request is kept in a field of the shared instance, so a
\* thread handles the request another thread has parsed meanwhile.
Dispatch_from_a_shared_field(t) ==
    /\ program = "django" /\ inflight[t].stage = "parsed"
    /\ LET others == {u \in Threads : u # t /\ inflight[u].stage = "parsed"}
           mine   == IF others = {} THEN inflight[t]
                     ELSE inflight[CHOOSE u \in others : TRUE]
       IN
       With(handle_request_with_response(mine.request, mine.now), LAMBDA r :
         inflight' = [inflight EXCEPT ![t] =
           [@ EXCEPT !.stage = "handled",
                     !.handler = r.called,
                     !.response = IF r.exc = "" THEN r.v
                                  ELSE ErrorEnvelope(-32603, "Internal error: " \o r.msg, PNone)]])
    /\ UNCHANGED <<program, pc, line, written, called, nread, emitted, outstanding,
                   init_reply, stdout>>

\* handle_raw_request: return self.handle_request_with_response(request), and
\* its except clause.
Dispatch(t) ==
    /\ program = "django" /\ inflight[t].stage = "parsed"
    /\ With(handle_request_with_response(inflight[t].request, inflight[t].now), LAMBDA r :
         inflight' = [inflight EXCEPT ![t] =
           [@ EXCEPT !.stage = "handled",
                     !.handler = r.called,
                     !.response = IF r.exc = "" THEN r.v
                                  ELSE ErrorEnvelope(-32603, "Internal error: " \o r.msg, PNone)]])
    /\ UNCHANGED <<program, pc, line, written, called, nread, emitted, outstanding,
                   init_reply, stdout>>

\* if not response: return JsonResponse({}) / return JsonResponse(response)
Respond(t) ==
    /\ program = "django" /\ inflight[t].stage = "handled"
    /\ inflight' = [inflight EXCEPT ![t] = [@ EXCEPT !.stage = "responded"]]
    /\ Step(inflight[t].body,
            <<json_dumps(IF Truthy(inflight[t].response) THEN inflight[t].response
                         ELSE EmptyDict)>>,
            inflight[t].handler, "loop")

HttpInit ==
    /\ program = "django"
    /\ pc = "loop"
    /\ line = NoLine
    /\ written = <<>>
    /\ called = ""
    /\ nread = 0
    /\ emitted = 0
    /\ outstanding = 0
    /\ init_reply = NoReply
    /\ stdout = <<>>
    /\ inflight = [t \in Threads |-> Idle]

HttpNext ==
    \E t \in Threads :
        \/ Receive(t)
        \/ Parse(t)
        \/ Dispatch(t)
        \/ Respond(t)

HttpSpec == HttpInit /\ [][HttpNext]_vars

-----------------------------------------------------------------------------
(* Vocabulary of the properties: the line read last and what was written   *)
(* for it.                                                                 *)

IsMessage(raw) == raw.kind = "json" /\ raw.v.t = "object"

Member(raw, key) == IF IsMessage(raw) /\ key \in DOMAIN raw.v.d THEN raw.v.d[key] ELSE Absent

\* A message that carries an id / a notification (no id member).
CarriesId(raw)      == IsMessage(raw) /\ Member(raw, "id") \notin {Absent, WNull}
IsNotification(raw) == IsMessage(raw) /\ Member(raw, "id") = Absent

HasResult(w) == w.t = "object" /\ "result" \in DOMAIN w.d
HasError(w)  == w.t = "object" /\ "error" \in DOMAIN w.d

\* An error envelope with this code: jsonrpc, error{code, message}, no result.
IsErrorEnvelope(w, code) ==
    /\ HasError(w) /\ ~HasResult(w)
    /\ "jsonrpc" \in DOMAIN w.d /\ w.d["jsonrpc"] = WStr("2.0")
    /\ w.d["error"].t = "object"
    /\ DOMAIN w.d["error"].d = {"code", "message"}
    /\ w.d["error"].d["code"] = WNum(code)
    /\ w.d["error"].d["message"].t = "string"

\* The synthesized request of program p.
RootsRequest(p) ==
    WObj([jsonrpc |-> WStr("2.0"), id |-> WStr(RootsId[p]),
          method |-> WStr("roots/list"), params |-> WObj(<<>>)])


-----------------------------------------------------------------------------
(* Properties.                                                             *)

MCPServerPrograms == {"stdlib", "django"}

UnknownMethod(raw) ==
    Member(raw, "method").t = "string" /\ Member(raw, "method") \notin {WStr(m) : m \in KnownMethods}

\* C1: a request that carries an id and whose method is none of the seven
\* supported ones is answered by MCPServer with one envelope whose error.code
\* is -32601 and which has no result member.
C1_UnknownMethodIsMethodNotFound ==
    (program \in MCPServerPrograms /\ CarriesId(line) /\ UnknownMethod(line))
        => (Len(written) = 1 /\ IsErrorEnvelope(written[1], -32601))

\* C2: for a notification (a JSON object without an id member), whatever its
\* method and params, the stdio transport of MCPServer writes nothing or exactly
\* one request carrying the fixed correlation id, and nothing it writes has a
\* result or an error member.
C2_NotificationNeverAnswered ==
    (program \in {"stdlib", "stdlib1"} /\ IsNotification(line))
        => /\ Len(written) <= 1
           /\ \A i \in DOMAIN written :
                 /\ written[i] = RootsRequest(program)
                 /\ ~HasResult(written[i]) /\ ~HasError(written[i])

C2_Witness ==
    /\ program = "stdlib" /\ IsNotification(line)
    /\ Member(line, "method") = WStr("tools/call") /\ Member(line, "params") = WNull
    /\ written = <<RootsRequest("stdlib")>>

\* C3: every response written for a message that carries an id has an id member
\* equal to it, type included (string stays string, number stays number), for
\* success and error envelopes alike.
C3_IdEchoed ==
    (program \in {"stdlib", "stdlib1"} /\ CarriesId(line))
        => \A i \in DOMAIN written :
              /\ "id" \in DOMAIN written[i].d
              /\ written[i].d["id"] = Member(line, "id")
              /\ written[i].d["id"].t = Member(line, "id").t

C3_Witness ==
    /\ program = "stdlib" /\ Member(line, "id") = WNum(7)
    /\ Len(written) = 1 /\ IsErrorEnvelope(written[1], -32603)
    /\ written[1].d["id"] = WNum(7) /\ written[1].d["id"] # WStr("7")

ParseErrorEnvelope ==
    WObj([jsonrpc |-> WStr("2.0"),
          error   |-> WObj([code |-> WNum(-32700), message |-> WStr("Parse error")]),
          id      |-> WNull])

\* C4: for a line that is not valid JSON the stdio transport of MCPServer writes
\* exactly one line, the envelope {jsonrpc, error {-32700, "Parse error"}, id
\* null}, and the loop is still running after it.
C4_ParseError ==
    [][(program = "stdlib" /\ nread' = nread + 1 /\ line'.kind \in {"invalid", "blank"})
          => (written' = <<ParseErrorEnvelope>> /\ pc' = "loop")]_vars

C4_Witness ==
    /\ program = "stdlib" /\ line = Text("invalid")
    /\ written = <<ParseErrorEnvelope>> /\ pc = "loop"

\* What a program writes that is a response envelope: not a request of its own,
\* and not the empty body an HTTP view returns when there is nothing to say.
IsEnvelope(w) == w.t = "object" /\ "method" \notin DOMAIN w.d /\ w # WObj(<<>>)

\* C5: every response envelope written has exactly one of the members result
\* and error and, when it answers a message that is not a notification, an id
\* member.
C5_EnvelopeShape ==
    \A i \in DOMAIN written :
        IsEnvelope(written[i])
            => /\ HasResult(written[i]) # HasError(written[i])
               /\ (IsMessage(line) /\ ~IsNotification(line)) => "id" \in DOMAIN written[i].d

\* C6: whatever the lines are, a stdio loop never ends because of an exception.
C6_NeverCrashes == program \in Stdio => pc # "crashed"

\* C7 as stated: every message that carries an id is answered by an envelope
\* (a result or an error).
C7_EveryIdAnswered ==
    (program = "stdlib" /\ CarriesId(line))
        => \E i \in DOMAIN written : HasResult(written[i]) \/ HasError(written[i])

\* C7 as amended: every message that carries an id other than the fixed
\* correlation id "42" is answered by exactly one envelope, which has a result
\* or an error member and is no request.
C7_EveryIdButRootsAnswered ==
    (program = "stdlib" /\ CarriesId(line) /\ Member(line, "id") # WStr(ROOTS_ID))
        => /\ Len(written) = 1
           /\ IsEnvelope(written[1])
           /\ HasResult(written[1]) \/ HasError(written[1])

C7_Witness ==
    /\ program = "stdlib" /\ Member(line, "id") = WStr("7")
    /\ Member(line, "method") = WStr("tools/call") /\ Member(line, "params") = Absent
    /\ Len(written) = 1 /\ HasResult(written[1])

\* C8: once a roots/list request has been written, a later message whose id is
\* the fixed correlation id is absorbed: nothing is written for it and no
\* capability handler is called.
C8_ReplyAbsorbed ==
    (program \in {"stdlib", "stdlib1"} /\ emitted > Emitted(written)
        /\ Answers(program, line))
        => (written = <<>> /\ called = "")

C8_Witness ==
    /\ program = "stdlib" /\ emitted > 0 /\ Answers(program, line)
    /\ Member(line, "method") = WStr("tools/list")
    /\ written = <<>> /\ called = ""

\* C9: at most one synthesized roots/list request is outstanding at any time.
C9_AtMostOneOutstanding == program = "stdlib" => outstanding <= 1

RegisteredTools ==
    [p \in Programs |->
        CASE p \in {"stdlib", "stdlib1", "django"} -> {WStr("days_between")}
          [] p = "simple"  -> {WStr("echo"), WStr("calculator")}
          [] p = "django4" -> {WStr("hello")}]

\* A tools/call request, served as a request, that names no registered tool.
CallsUnknownTool(p, raw) ==
    /\ CarriesId(raw) /\ ~Answers(p, raw)
    /\ Member(raw, "method") = WStr("tools/call")
    /\ Member(raw, "params").t = "object"
    /\ "name" \in DOMAIN Member(raw, "params").d
    /\ Member(raw, "params").d["name"].t = "string"
    /\ Member(raw, "params").d["name"] \notin RegisteredTools[p]

\* C10: a tools/call request whose params.name is not a registered tool is
\* answered by an error envelope with code -32602 whose message names the tool,
\* without a result member.
C10_UnknownToolIsInvalidParams ==
    (program \in {"stdlib", "simple", "django4"} /\ CallsUnknownTool(program, line))
        => /\ Len(written) = 1
           /\ IsErrorEnvelope(written[1], -32602)
           /\ written[1].d["error"].d["message"]
                 = WStr("Unknown tool: " \o Member(line, "params").d["name"].s)

\* The member `key` of the params of a message (Absent when there is none).
Param(raw, key) ==
    IF Member(raw, "params").t = "object" /\ key \in DOMAIN Member(raw, "params").d
    THEN Member(raw, "params").d[key] ELSE Absent

\* A message served as a request for `method`: it carries an id that is not
\* the correlation id, and its params are an object or left out.
Requests(p, raw, method) ==
    /\ CarriesId(raw) /\ ~Answers(p, raw)
    /\ Member(raw, "method") = WStr(method)
    /\ Member(raw, "params").t \in {"object", "absent"}

\* C11: a resources/read request whose params.uri is anything but
\* "time://current" (a missing uri included) is answered by MCPServer with one
\* error envelope of code -32602 that has no result member and, when the uri is
\* a string, whose message names it.
C11_UnknownUriIsInvalidParams ==
    (program \in MCPServerPrograms /\ Requests(program, line, "resources/read")
        /\ Param(line, "uri") # WStr("time://current"))
        => /\ Len(written) = 1
           /\ IsErrorEnvelope(written[1], -32602)
           /\ Param(line, "uri").t = "string"
                 => written[1].d["error"].d["message"]
                       = WStr("Unknown resource URI: " \o Param(line, "uri").s)

\* A tools/call request for days_between whose arguments are an object.
CallsDaysBetween(p, raw) ==
    /\ Requests(p, raw, "tools/call")
    /\ Param(raw, "name") = WStr("days_between")
    /\ Param(raw, "arguments").t = "object"

\* The argument `key` of a tools/call message (Absent when there is none).
Argument(raw, key) ==
    IF Param(raw, "arguments").t = "object" /\ key \in DOMAIN Param(raw, "arguments").d
    THEN Param(raw, "arguments").d[key] ELSE Absent

\* A JSON string the date parser accepts / rejects.
Parses(w)      == w.t = "string" /\ strptime(decode(w)).exc = ""
Unparseable(w) == w.t = "string" /\ strptime(decode(w)).exc = "ValueError"

\* A success envelope with a single text content block.
IsTextResult(w) ==
    /\ HasResult(w) /\ ~HasError(w)
    /\ w.d["result"].t = "object" /\ DOMAIN w.d["result"].d = {"content"}
    /\ w.d["result"].d["content"].t = "array"
    /\ Len(w.d["result"].d["content"].d) = 1
    /\ w.d["result"].d["content"].d[1].t = "object"
    /\ DOMAIN w.d["result"].d["content"].d[1].d = {"type", "text"}
    /\ w.d["result"].d["content"].d[1].d["type"] = WStr("text")
    /\ w.d["result"].d["content"].d[1].d["text"].t = "string"

TextOf(w) == w.d["result"].d["content"].d[1].d["text"].s

StartsWith(s, prefix) == Len(s) >= Len(prefix) /\ SubSeq(s, 1, Len(prefix)) = prefix

DescribesParseFailure(w) ==
    IsTextResult(w)
       /\ StartsWith(TextOf(w), "Error parsing dates. Please use YYYY-MM-DD format. Error: ")

JulianDay(y, m, d) ==
    LET a  == (14 - m) \div 12
        yy == y + 4800 - a
        mm == m + 12 * a - 3
    IN d + ((153 * mm + 2) \div 5) + 365 * yy + (yy \div 4) - (yy \div 100) + (yy \div 400) - 32045

JulianDayOf(s) == JulianDay(IntOf(s, 1, 4), IntOf(s, 6, 2), IntOf(s, 9, 2))

\* A JSON string of the form YYYY-MM-DD that names a day of the calendar.
IsIsoDate(w) ==
    /\ w.t = "string" /\ Len(w.s) = 10
    /\ \A i \in {1, 2, 3, 4, 6, 7, 9, 10} : Ch(w.s, i) \in Digits
    /\ Ch(w.s, 5) = "-" /\ Ch(w.s, 8) = "-"
    /\ LET y == IntOf(w.s, 1, 4)
           m == IntOf(w.s, 6, 2)
           d == IntOf(w.s, 9, 2)
       IN /\ y >= 1 /\ m \in 1..12 /\ d >= 1
          /\ JulianDay(y, m, d) < (IF m = 12 THEN JulianDay(y + 1, 1, 1)
                                   ELSE JulianDay(y, m + 1, 1))

\* C13: a days_between call with two valid YYYY-MM-DD dates is answered by a
\* success envelope whose single text block is "There are N days between
\* <start_date> and <end_date>.", N being the signed number of calendar days
\* from start_date to end_date.
C13_DaysBetween ==
    (program \in MCPServerPrograms /\ CallsDaysBetween(program, line)
        /\ IsIsoDate(Argument(line, "start_date")) /\ IsIsoDate(Argument(line, "end_date")))
        => /\ Len(written) = 1 /\ IsTextResult(written[1])
           /\ TextOf(written[1])
                 = "There are "
                      \o ToString(JulianDayOf(Argument(line, "end_date").s)
                                    - JulianDayOf(Argument(line, "start_date").s))
                      \o " days between " \o Argument(line, "start_date").s
                      \o " and " \o Argument(line, "end_date").s \o "."

C13_Witness ==
    /\ program = "stdlib" /\ CallsDaysBetween(program, line)
    /\ Argument(line, "start_date") = WStr("2024-03-01")
    /\ Argument(line, "end_date") = WStr("2024-02-28")
    /\ Len(written) = 1 /\ IsTextResult(written[1])
    /\ TextOf(written[1]) = "There are -2 days between 2024-03-01 and 2024-02-28."

C15_BlankLinesSkipped ==
    (program \in Stdio /\ line.kind = "blank") => (written = <<>> /\ pc = "loop")

\* C16: mcp_endpoint returns exactly one JSON body for every POST body, and
\* the body is the empty object exactly when the message was a notification.
C16_EmptyBodyIffNotification ==
    (program = "django" /\ nread > 0)
        => /\ Len(written) = 1
           /\ (written[1] = WObj(<<>>)) <=> IsNotification(line)

\* One step of a sequential transport, as seen on its standard output.
OneLineAtATime ==
    program \in {"stdlib", "stdlib1"}
       => /\ Len(stdout') >= Len(stdout)
          /\ SubSeq(stdout', 1, Len(stdout)) = stdout
          /\ Len(stdout') <= Len(stdout) + 1
          /\ \A i \in (Len(stdout) + 1)..Len(stdout') :
                nread' = nread + 1 /\ stdout'[i] = nread'

\* C17: the stdio transport of MCPServer is strictly sequential.  In every
\* step, what was written before stays as it was, at most one line is added,
\* and an added line belongs to the line read in that very step; hence the
\* output for line n is complete before line n+1 is read, no line causes two
\* output lines, and the outputs are in the order of the inputs.
C17_Sequential == [][OneLineAtATime]_vars

C17_Witness ==
    /\ program = "stdlib1" /\ nread = 2 /\ stdout = <<1, 2>>
    /\ IsNotification(line) /\ written = <<RootsRequest("stdlib1")>>

\* What a server that has handled nothing yet writes for a line, read at the
\* instant `now`.
WrittenAtFirst(raw, now) ==
    With(handle_raw_request(strip(raw), now), LAMBDA response :
         IF Truthy(response.v) THEN <<json_dumps(response.v)>> ELSE <<>>)

ServedAlone(raw, now) ==
    With(handle_raw_request(raw, now), LAMBDA response :
         json_dumps(IF Truthy(response.v) THEN response.v ELSE EmptyDict))

\* The body returned to the request of thread t.
Returned(t) ==
    json_dumps(IF Truthy(inflight[t].response) THEN inflight[t].response ELSE EmptyDict)

C20_LoopTerminates == program \in {"stdlib", "simple"} ~> pc # "loop"

\* The loop has handled every line of the input and then met its end.
C20_Witness ==
    /\ program = "stdlib" /\ pc = "done" /\ nread = MaxLines
    /\ Len(stdout) = MaxLines

\* A request for a recognized method that leaves out an argument the method
\* needs.
OmitsRequiredArgument(p, raw) ==
    \/ /\ Requests(p, raw, "resources/read")
       /\ Param(raw, "uri") = Absent
    \/ /\ Requests(p, raw, "tools/call")
       /\ \/ Param(raw, "name") = Absent
          \/ /\ Param(raw, "name") = WStr("days_between")
             /\ Param(raw, "arguments").t \in {"object", "absent"}
             /\ Absent \in {Argument(raw, "start_date"), Argument(raw, "end_date")}
    \/ /\ Requests(p, raw, "prompts/get")
       /\ \/ Param(raw, "name") = Absent
          \/ /\ Param(raw, "name") = WStr("quote-of-the-day")
             /\ Param(raw, "arguments").t \in {"object", "absent"}
             /\ Absent \in {Argument(raw, "movie"), Argument(raw, "character")}

\* C21: a request for a recognized method that omits a required argument is
\* answered by MCPServer with one Invalid Params error (code -32602), not with
\* a success envelope.
C21_MissingArgumentIsInvalidParams ==
    (program \in MCPServerPrograms /\ OmitsRequiredArgument(program, line))
        => (Len(written) = 1 /\ IsErrorEnvelope(written[1], -32602))

\* A tools/call request that names a tool the program has registered.
CallsRegisteredTool(p, raw) ==
    /\ CarriesId(raw) /\ ~(p # "simple" /\ Answers(p, raw))
    /\ Member(raw, "method") = WStr("tools/call")
    /\ Param(raw, "name") \in RegisteredTools[p]

\* C22: a tools/call request that names a registered tool is always answered
\* by a success envelope with one text block, whatever goes wrong inside the
\* tool; it never produces an error envelope.
C22_ToolFailureIsText ==
    (program \in {"stdlib", "simple"} /\ CallsRegisteredTool(program, line))
        => (Len(written) = 1 /\ IsTextResult(written[1]) /\ ~HasError(written[1]))

\* Dispatching this message raises an exception: in MCPServer, handle_request
\* raises; in SimpleMCPServer, the tools/call branch of handle_request does.
DispatchRaises(p, raw) ==
    /\ IsMessage(raw)
    /\ LET request == decode(raw.v) IN
       IF p = "simple"
       THEN /\ Get(request, "method", PNone) = PStr("tools/call")
            /\ call_tool(Get(request, "params", EmptyDict),
                         Get(request, "id", PNone)).exc # ""
       ELSE handle_request(request, 0).exc # ""

\* C23: when dispatching a request that carries an id raises an exception, the
\* program writes exactly one error envelope with code -32603, the request's
\* own id (same value, same JSON type) and no result member.
C23_DispatchExceptionIsInternalError ==
    (program \in {"stdlib", "simple"} /\ CarriesId(line)
        /\ DispatchRaises(program, line))
        => /\ Len(written) = 1
           /\ IsErrorEnvelope(written[1], -32603)
           /\ "id" \in DOMAIN written[1].d
           /\ written[1].d["id"] = Member(line, "id")

\* params is a list for a tools/call request with id 7.
C23_Witness ==
    /\ program = "stdlib" /\ Member(line, "id") = WNum(7)
    /\ Member(line, "method") = WStr("tools/call")
    /\ Member(line, "params").t = "array"
    /\ DispatchRaises(program, line)
    /\ Len(written) = 1 /\ IsErrorEnvelope(written[1], -32603)
    /\ written[1].d["id"] = WNum(7)

\* The handlers of the capabilities, as recorded in `called`.
CapabilityHandlers ==
    {"handle_initialize", "handle_resources_list", "handle_resources_read",
     "handle_tools_list", "handle_tools_call", "handle_prompts_list",
     "handle_prompts_get"}

\* C24: for every notification (a message without an id member), whatever its
\* method and params, MCPServer writes exactly one message, the request
\* roots/list with empty params and the fixed correlation id, and no capability
\* handler is invoked.
C24_NotificationAsksRoots ==
    (program \in {"stdlib", "stdlib1"} /\ IsNotification(line))
        => /\ written = <<RootsRequest(program)>>
           /\ written[1].d["params"] = WObj(<<>>)
           /\ called \in {"ask_roots", "handle_notification"}
           /\ called \notin CapabilityHandlers

\* A notification named initialize with a list as params.
C24_Witness ==
    /\ program = "stdlib" /\ IsNotification(line)
    /\ Member(line, "method") = WStr("initialize")
    /\ Member(line, "params").t = "array"
    /\ written = <<RootsRequest("stdlib")>> /\ called = "ask_roots"

\* A line that is valid JSON but not a JSON object.
IsNonObject(raw) == raw.kind = "json" /\ raw.v.t # "object"

\* C25: for every line that is valid JSON but not a JSON object, the stdio
\* transport of MCPServer writes exactly one line, an error envelope with code
\* -32603 and id null, and the loop has not crashed.
C25_NonObjectIsInternalError ==
    (program = "stdlib" /\ IsNonObject(line))
        => /\ Len(written) = 1
           /\ IsErrorEnvelope(written[1], -32603)
           /\ "id" \in DOMAIN written[1].d /\ written[1].d["id"] = WNull
           /\ pc # "crashed"

\* The line [] was served and the loop reads on.
C25_Witness ==
    /\ program = "stdlib" /\ line.kind = "json" /\ line.v = WArr(<<>>)
    /\ Len(written) = 1 /\ IsErrorEnvelope(written[1], -32603)
    /\ written[1].d["id"] = WNull
    /\ written[1].d["error"].d["message"]
          = WStr("Internal error: 'list' object has no attribute 'get'")
    /\ pc = "loop"

\* C26: MCPServer absorbs a message exactly when its id is the string "42": a
\* message that carries any other id, the number 42 included, is dispatched
\* and its one response echoes that id with its JSON type; for the string "42"
\* nothing is written and no handler is called.
C26_AbsorptionByValueAndType ==
    (program = "stdlib" /\ CarriesId(line))
        => IF Member(line, "id") = WStr("42")
           THEN written = <<>> /\ called = ""
           ELSE /\ Len(written) = 1
                /\ IsEnvelope(written[1])
                /\ "id" \in DOMAIN written[1].d
                /\ written[1].d["id"] = Member(line, "id")
                /\ Member(line, "method") \in {WStr(m) : m \in KnownMethods}
                      => called \in CapabilityHandlers

\* tools/list with the number 42 as id is answered with the list and id 42.
C26_Witness ==
    /\ program = "stdlib" /\ Member(line, "id") = WNum(42)
    /\ Member(line, "method") = WStr("tools/list")
    /\ Len(written) = 1 /\ HasResult(written[1])
    /\ written[1].d["id"] = WNum(42) /\ written[1].d["id"] # WStr("42")
    /\ called = "handle_tools_list"

\* C27: a message whose id member is present but null is served by MCPServer
\* as a notification: the one message written is the synthesized roots/list
\* request with id "42", never a result or error envelope with id null.
C27_NullIdIsNotification ==
    (program = "stdlib" /\ IsMessage(line) /\ Member(line, "id") = WNull)
        => /\ written = <<RootsRequest("stdlib")>>
           /\ written[1].d["id"] = WStr("42")
           /\ ~HasResult(written[1]) /\ ~HasError(written[1])
           /\ called = "ask_roots"

\* initialize with "id": null gets the roots/list request, not the handshake.
C27_Witness ==
    /\ program = "stdlib" /\ IsMessage(line)
    /\ "id" \in DOMAIN line.v.d /\ line.v.d["id"] = WNull
    /\ Member(line, "method") = WStr("initialize")
    /\ written = <<RootsRequest("stdlib")>> /\ called = "ask_roots"

\* C28: for every request of MCPServer with a non-null id other than "42" the
\* one reply is a wrapped envelope: its members are jsonrpc "2.0", the
\* request's id and either result or error, and the payload inside result has
\* no id member of its own; it is never a bare payload.
C28_RepliesAreWrapped ==
    (program = "stdlib" /\ CarriesId(line) /\ Member(line, "id") # WStr(ROOTS_ID))
        => /\ Len(written) = 1
           /\ written[1].t = "object"
           /\ DOMAIN written[1].d \in {{"jsonrpc", "id", "result"}, {"jsonrpc", "id", "error"}}
           /\ written[1].d["jsonrpc"] = WStr("2.0")
           /\ written[1].d["id"] = Member(line, "id")
           /\ HasResult(written[1])
                 => /\ written[1].d["result"].t = "object"
                    /\ "id" \notin DOMAIN written[1].d["result"].d

\* The tool list comes back inside result, under the request's id.
C28_Witness ==
    /\ program = "stdlib" /\ Member(line, "id") = WStr("roots_request_1")
    /\ Member(line, "method") = WStr("tools/list")
    /\ Len(written) = 1
    /\ DOMAIN written[1].d = {"jsonrpc", "id", "result"}
    /\ "tools" \in DOMAIN written[1].d["result"].d
    /\ written[1].d["id"] = WStr("roots_request_1")
    /\ called = "handle_tools_list"

\* The values of `key` in the list that a list handler returned under `member`.
Names(payload, member, key) ==
    LET list == json_dumps(payload).d[member].d IN
    {list[i].d[key] : i \in DOMAIN list}

\* What MCPServer advertises: the answers of tools/list, resources/list and
\* prompts/list.
AdvertisedTools     == Names(handle_tools_list, "tools", "name")
AdvertisedResources == Names(handle_resources_list, "resources", "uri")
AdvertisedPrompts   == Names(handle_prompts_list, "prompts", "name")

\* The reply says that the capability is unknown: "Unknown tool: ...",
\* "Unknown resource URI: ..." or "Unknown prompt: ...", inside result.
Rejects(w, what) ==
    /\ HasResult(w) /\ w.d["result"].t = "object"
    /\ DOMAIN w.d["result"].d = {"error"}
    /\ StartsWith(w.d["result"].d["error"].s, "Unknown " \o what \o ": ")

\* The list under `member` in the result of a reply.
Listed(w, member, key) ==
    LET list == w.d["result"].d[member].d IN
    {list[i].d[key] : i \in DOMAIN list}

\* This reply is a list of exactly these capabilities.
Lists(out, member, key, names) ==
    /\ Len(out) = 1 /\ HasResult(out[1])
    /\ DOMAIN out[1].d["result"].d = {member}
    /\ Len(out[1].d["result"].d[member].d) = Cardinality(names)
    /\ Listed(out[1], member, key) = names

\* C29: what MCPServer advertises and what it accepts agree, at every point of
\* a run: tools/list, resources/list and prompts/list answer with exactly one
\* tool days_between, one resource time://current and one prompt
\* quote-of-the-day, and tools/call, resources/read and prompts/get reject a
\* name as unknown exactly when it is not in the list advertised.
C29_AdvertisedIsAccepted ==
    program = "stdlib" =>
        /\ AdvertisedTools = {WStr("days_between")}
        /\ AdvertisedResources = {WStr("time://current")}
        /\ AdvertisedPrompts = {WStr("quote-of-the-day")}
        /\ Requests(program, line, "tools/list")
              => Lists(written, "tools", "name", AdvertisedTools)
        /\ Requests(program, line, "resources/list")
              => Lists(written, "resources", "uri", AdvertisedResources)
        /\ Requests(program, line, "prompts/list")
              => Lists(written, "prompts", "name", AdvertisedPrompts)
        /\ Requests(program, line, "tools/call")
              => /\ Len(written) = 1
                 /\ Rejects(written[1], "tool") <=> Param(line, "name") \notin AdvertisedTools
        /\ Requests(program, line, "resources/read")
              => /\ Len(written) = 1
                 /\ Rejects(written[1], "resource URI")
                       <=> Param(line, "uri") \notin AdvertisedResources
        /\ Requests(program, line, "prompts/get")
              => /\ Len(written) = 1
                 /\ Rejects(written[1], "prompt") <=> Param(line, "name") \notin AdvertisedPrompts

\* As the second line of a run, a resources/read names a URI that
\* resources/list does not advertise, and is turned down.
C29_Witness ==
    /\ program = "stdlib" /\ nread = 2
    /\ Requests(program, line, "resources/read")
    /\ Param(line, "uri") = WStr("file:///etc/passwd")
    /\ Param(line, "uri") \notin AdvertisedResources
    /\ Len(written) = 1 /\ Rejects(written[1], "resource URI")

====
